---------------------------- MODULE Spec2Model ----------------------------
(***************************************************************************)
(* A model of the observable store layer of lightning-terminal:            *)
(*   - NodeStore (app/src/store/stores/nodeStore.ts): node identity,       *)
(*     wallet balances, fetchInfo / fetchBalances / onTransaction / copy   *)
(*     and the debounced fetchBalancesThrottled;                           *)
(*   - StoreProvider / useStore / useActions (the React context wiring).   *)
(*                                                                         *)
(* The specifications that share the module:                               *)
(*   Spec          the NodeStore with its asynchronous fetches,            *)
(*   SpecWallet    overlapping fetchBalances and the transaction feed,     *)
(*   SpecInfo      overlapping fetchInfo and copy,                         *)
(*   SpecRace      a walletBalance response on its way and the feed,       *)
(*   SpecLabels    the computed labels pubkeyLabel and urlLabel,           *)
(*   SpecDebounce  fetchBalancesThrottled against a clock,                 *)
(*   SpecStream    fetchBalancesThrottled under calls that never end,      *)
(*   SpecProvider  the Provider and the two hooks,                         *)
(*   SpecTeardown  fetches pending when the Provider is unmounted.         *)
(***************************************************************************)
EXTENDS Integers, Sequences, FiniteSets, TLC

VARIABLES
    \* ---- NodeStore fields (nodeStore.ts 19-32)
    pubkey, alias, url, chain, network, wallet, knownTxns,
    \* ---- the asynchronous invocations of fetchInfo / fetchBalances
    calls, lastResponse,
    \* ---- collaborators: uiStore.handleError / uiStore.notify / clipboard
    uiErrors, notifications, clipboard,
    \* ---- history of the transaction feed and of the balance commits
    delivered, redelivered, base, sinceCommit,
    \* ---- what the most recent batch (runInAction / @action) showed observers
    observed,
    \* ---- the clock and lodash's debounce state of fetchBalancesThrottled
    now, timerId, timerDue, lastCallTime, lastArgs, throttledCalls, fetchStarts,
    \* ---- React: mounted StoreProviders, the consumer's render pass
    providers, pass, created,
    \* ---- the reads of the computed labels; the invocations that were
    \* ---- pending when the last StoreProvider was unmounted
    reads, orphans,
    \* ---- the debounce state with its times relative to the present: the
    \* ---- time since the last call and the time until the timer is due
    sinceCall, untilDue,
    \* ---- the walletBalance responses the node has produced and that are
    \* ---- on their way to the awaiting invocation
    produced

storeVars == <<pubkey, alias, url, chain, network, wallet, knownTxns>>
asyncVars == <<calls, lastResponse, uiErrors, notifications, clipboard>>
histVars == <<delivered, redelivered, base, sinceCommit, observed>>
debounceVars == <<now, timerId, timerDue, lastCallTime, lastArgs, throttledCalls, fetchStarts>>
reactVars == <<providers, pass, created>>
auxVars == <<reads, orphans, sinceCall, untilDue, produced>>
vars == <<storeVars, asyncVars, histVars, debounceVars, reactVars, auxVars>>

-----------------------------------------------------------------------------
(* Bounds of the model *)

\* invocations of fetchInfo / fetchBalances started in one behaviour of Spec
MaxCalls == 1
\* invocations of fetchBalances started in one behaviour of SpecWallet
MaxFetches == 2
\* invocations of fetchInfo started in one behaviour of SpecInfo
MaxInfoCalls == 2
\* the clock runs from 0 to MaxTime, in ticks of 100 ms
MaxTime == 40
\* calls of fetchBalancesThrottled in one behaviour
MaxThrottledCalls == 3
\* nesting depth of StoreProviders
MaxDepth == 1
\* actions objects made by createActions in one behaviour
MaxCreated == 1
\* hook calls in one render pass of a consumer
MaxHookCalls == 2

\* invocations of fetchBalances started in one behaviour of SpecRace
MaxRaceFetches == 1
\* fetches started by the debounce in one behaviour of SpecStream
MaxStreamFetches == 1
\* invocations started below a StoreProvider in one behaviour of SpecTeardown
MaxUiCalls == 1
\* invocations of fetchInfo started in one behaviour of SpecLabels
MaxLabelFetches == 1
\* reads of the computed labels in one behaviour
MaxReads == 3

\* the length up to which ellipseInside leaves a text as it is
LabelChars == 12

\* the wait of debounce(this.fetchBalances, 2000), in milliseconds
WaitMs == 2000
\* one tick of the clock is 100 ms
Ms(t) == t * 100
\* (mutant) a wait of 1000 ms
WaitHalf == WaitMs \div 200
\* the wait in ticks
Wait == WaitMs \div 100

\* both balances of new Wallet() (the Wallet model starts at zero)
InitialBalance == 0

-----------------------------------------------------------------------------
(* Input domains *)

\* the transactions the push feed can deliver: {txHash, amount}
Transactions ==
    { [txHash |-> "h1", amount |-> 2], [txHash |-> "h2", amount |-> -3] }

TxHashes == { t.txHash : t \in Transactions }

\* what an RPC response can carry in a balance field: a number, or a value
\* Big() cannot convert (undefined, NaN)
BalanceFields ==
    { [num |-> TRUE, v |-> 1], [num |-> TRUE, v |-> 4], [num |-> FALSE, v |-> 0] }

LT == [chain |-> "litecoin", network |-> "testnet"]
BR == [chain |-> "bitcoin", network |-> "regtest"]

\* a list field of GetInfoResponse; absent is modelled by [present |-> FALSE]
ChainsLists ==
    { [present |-> FALSE, list |-> <<>>], [present |-> TRUE, list |-> <<>>],
      [present |-> TRUE, list |-> <<LT>>], [present |-> TRUE, list |-> <<BR, LT>>] }

UrisLists ==
    { [present |-> FALSE, list |-> <<>>], [present |-> TRUE, list |-> <<>>],
      [present |-> TRUE, list |-> <<"abc@host:1">>],
      [present |-> TRUE, list |-> <<"xyz", "abc@host:1">>] }

\* getInfo() responses; an absent identityPubkey / alias is the empty string
InfoResponses ==
    [ identityPubkey : {"", "02abc"}, alias : {"", "alice"},
      chainsList : ChainsLists, urisList : UrisLists ]

\* the uris of the getInfo() responses the labels are read after
LabelUris ==
    { "abc@host:1", "xyz", "abc@", "@host:1", "ab@h@x",
      "0123456789abcdef@host:1", "0123456789ab@h" }

LabelPubkeys == { "", "02abc", "0123456789abcdef", "0123456789ab" }

LabelResponses ==
    { [ identityPubkey |-> k, alias |-> "alice",
        chainsList |-> [present |-> FALSE, list |-> <<>>],
        urisList |-> [present |-> TRUE, list |-> <<u>>] ] :
      k \in LabelPubkeys, u \in LabelUris }

BalanceResponses == [ balance : BalanceFields ]
WalletResponses == [ totalBalance : BalanceFields ]

RpcError == "rpc error"
BigError == "[big.js] Invalid number"

-----------------------------------------------------------------------------
(* Helpers *)

Range(s) == { s[i] : i \in 1..Len(s) }

\* (mutant) only the most recent hash is compared
IncludesLast(list, h) == Len(list) > 0 /\ list[Len(list)] = h

\* Array.prototype.includes on _knownTxns (nodeStore.ts 116)
Includes(list, h) == \E i \in 1..Len(list) : list[i] = h

\* Big(x): the decimal value of x, or an exception when x is not a number
Big(x) ==
    IF x.num THEN [threw |-> FALSE, val |-> x.v]
    ELSE [threw |-> TRUE, val |-> 0]

\* (mutant) the amount is subtracted
Minus(a, b) == a - b

\* Big.plus
Plus(a, b) == a + b

NoResp == [st |-> "none"]
Resolved(r) == [st |-> "resolved", val |-> r]

\* the outcome of an RPC as it reaches the awaiting invocation i
Response(i, rpc, r) == [call |-> i, rpc |-> rpc, st |-> "resolved", val |-> r]
Rejection(i, rpc) == [call |-> i, rpc |-> rpc, st |-> "rejected", val |-> RpcError]


\* the context messages of the two catch blocks (nodeStore.ts 84, 103)
InfoErrorMsg == "Unable to fetch node info"
BalancesErrorMsg == "Unable to fetch balances"

\* (mutant) the error is reported twice
HandleErrorTwice(i, error, message) ==
    uiErrors' = uiErrors \o <<[call |-> i, error |-> error, message |-> message],
                              [call |-> i, error |-> error, message |-> message]>>

\* uiStore.handleError(error, message), called by invocation i
HandleError(i, error, message) ==
    uiErrors' = Append(uiErrors, [call |-> i, error |-> error, message |-> message])

\* (mutant) fetchBalances issues both RPCs at once (Promise.all)
NewCallBoth(fn, rpc) ==
    [fn |-> fn, pc |-> rpc, offChain |-> NoResp, result |-> "pending",
     issued |-> IF rpc = "channelBalance"
                THEN <<"channelBalance", "walletBalance">> ELSE <<rpc>>,
     wrote |-> {}]

\* a new asynchronous invocation, suspended at its first await
\* result: "pending", then "committed" (the runInAction body ran to its end),
\* "rejected" (an RPC rejected, caught) or "threw" (the body threw, caught);
\* issued: the RPCs the invocation has issued; wrote: the fields it assigned
NewCall(fn, rpc) ==
    [fn |-> fn, pc |-> rpc, offChain |-> NoResp, result |-> "pending",
     issued |-> <<rpc>>, wrote |-> {}]

\* the invocation's promise resolves: nothing is pending any more
Finish(c, result, wrote) ==
    [c EXCEPT !.pc = "done", !.offChain = NoResp, !.result = result,
              !.wrote = wrote]

-----------------------------------------------------------------------------
(* NodeStore *)

StoreInit ==
    /\ pubkey = ""
    /\ alias = ""
    /\ url = ""
    /\ chain = "bitcoin"
    /\ network = "mainnet"
    /\ wallet = [channelBalance |-> InitialBalance, walletBalance |-> InitialBalance]
    /\ knownTxns = <<>>
    /\ calls = <<>>
    /\ lastResponse = NoResp
    /\ uiErrors = <<>>
    /\ notifications = <<>>
    /\ clipboard = ""
    /\ delivered = {}
    /\ redelivered = {}
    /\ base = InitialBalance
    /\ sinceCommit = 0
    /\ observed = <<>>
    /\ reads = <<>>
    /\ produced = {}

\* the observable fields as an observer reads them (_knownTxns is a plain
\* array, observers do not track it)
Observable ==
    [pubkey |-> pubkey, alias |-> alias, url |-> url, chain |-> chain,
     network |-> network, channelBalance |-> wallet.channelBalance,
     walletBalance |-> wallet.walletBalance]

\* one assignment to an observable field; fresh: the value is a new Big
\* object, which is never identical to the one it replaces
Assign(field, value, fresh) == [field |-> field, value |-> value, fresh |-> fresh]

\* an assignment is a change unless it stores the value the field has
Changes(state, w) == w.fresh \/ state[w.field] # w.value

\* the states observers would see were they notified after every change
RECURSIVE WriteLog(_, _)
WriteLog(state, writes) ==
    IF writes = <<>> THEN <<>>
    ELSE LET w == Head(writes)
             next == [state EXCEPT ![w.field] = w.value]
         IN  (IF Changes(state, w) THEN <<next>> ELSE <<>>)
             \o WriteLog(next, Tail(writes))

\* (mutant) the assignments are made outside a batch: every change notifies
RunWithoutAction(writes) == WriteLog(Observable, writes)

\* runInAction(name, body) and @action.bound: the assignments of the body
\* are one batch; observers are notified once, when the batch ends (also
\* when the body throws), with the state the batch left, and not at all
\* when no assignment was a change
RunInAction(writes) ==
    LET log == WriteLog(Observable, writes)
    IN  IF log = <<>> THEN <<>> ELSE <<log[Len(log)]>>

\* this[key] of copy(key)
Field(key) ==
    CASE key = "pubkey" -> pubkey
      [] key = "alias" -> alias
      [] key = "url" -> url

\* ellipseInside(text) of util/strings: a text longer than LabelChars is
\* shortened to its first and last LabelChars / 2 characters with an
\* ellipsis between them
ellipseInside(text) ==
    IF Len(text) <= LabelChars THEN text
    ELSE SubSeq(text, 1, LabelChars \div 2) \o "..."
         \o SubSeq(text, Len(text) - LabelChars \div 2 + 1, Len(text))

\* String.prototype.split(sep) for a one-character separator
RECURSIVE Split(_, _)
Split(text, sep) ==
    LET hits == { k \in 1..Len(text) : SubSeq(text, k, k) = sep }
    IN  IF hits = {} THEN <<text>>
        ELSE LET k == CHOOSE h \in hits : \A g \in hits : h <= g
             IN  <<SubSeq(text, 1, k - 1)>>
                 \o Split(SubSeq(text, k + 1, Len(text)), sep)

\* get pubkeyLabel()
pubkeyLabel == ellipseInside(pubkey)

\* (mutant) no check of the host
urlLabelAnyHost ==
    IF url = "" THEN ""
    ELSE LET parts == Split(url, "@")
         IN  IF Len(parts) < 2 THEN ""
             ELSE ellipseInside(parts[1]) \o "@" \o parts[2]

\* get urlLabel(): [pubkey, host] are the first two parts of the url split
\* at '@'; host is undefined when there is one part only
urlLabel ==
    IF url = "" THEN ""
    ELSE LET parts == Split(url, "@")
         IN  IF Len(parts) < 2 \/ parts[2] = "" THEN ""
             ELSE ellipseInside(parts[1]) \o "@" \o parts[2]

\* an observer reads one of the two computed labels
ReadLabel(getter) ==
    /\ Len(reads) < MaxReads
    /\ reads' = Append(reads,
                       [getter |-> getter, pubkey |-> pubkey, url |-> url,
                        value |-> IF getter = "pubkeyLabel"
                                  THEN pubkeyLabel ELSE urlLabel])
    /\ UNCHANGED <<orphans, sinceCall, untilDue, produced, storeVars, asyncVars, histVars,
                   debounceVars, reactVars>>

\* copy(key): writes this[key] to the clipboard and notifies
copy(key) ==
    /\ clipboard' = Field(key)
    /\ notifications' = <<[msg |-> "Copied " \o key \o " to clipboard",
                           detail |-> "", severity |-> "success"]>>
    /\ UNCHANGED <<storeVars, calls, lastResponse, uiErrors, histVars,
                   debounceVars, reactVars, auxVars>>

\* fetchInfo() up to its await: the getInfo RPC is issued
fetchInfo ==
    /\ calls' = Append(calls, NewCall("fetchInfo", "getInfo"))
    /\ UNCHANGED <<storeVars, lastResponse, uiErrors, notifications, clipboard,
                   histVars, debounceVars, reactVars, auxVars>>

\* the fields the body of 'getInfoContinuation' assigns for the response info
InfoWrites(info) ==
    {"pubkey", "alias"}
    \cup (IF info.chainsList.present /\ Len(info.chainsList.list) > 0
          THEN {"chain", "network"} ELSE {})
    \cup (IF info.urisList.present /\ Len(info.urisList.list) > 0
          THEN {"url"} ELSE {})

\* the assignments of the body of 'getInfoContinuation', in order
InfoAssignments(info) ==
    <<Assign("pubkey", info.identityPubkey, FALSE), Assign("alias", info.alias, FALSE)>>
    \o (IF info.chainsList.present /\ Len(info.chainsList.list) > 0
        THEN <<Assign("chain", info.chainsList.list[1].chain, FALSE),
               Assign("network", info.chainsList.list[1].network, FALSE)>>
        ELSE <<>>)
    \o (IF info.urisList.present /\ Len(info.urisList.list) > 0
        THEN <<Assign("url", info.urisList.list[1], FALSE)>>
        ELSE <<>>)

\* (mutant) the last element of each list is taken
GetInfoContinuationLast(info) ==
    /\ pubkey' = info.identityPubkey
    /\ alias' = info.alias
    /\ IF info.chainsList.present /\ Len(info.chainsList.list) > 0
       THEN /\ chain' = info.chainsList.list[Len(info.chainsList.list)].chain
            /\ network' = info.chainsList.list[Len(info.chainsList.list)].network
       ELSE UNCHANGED <<chain, network>>
    /\ IF info.urisList.present /\ Len(info.urisList.list) > 0
       THEN url' = info.urisList.list[Len(info.urisList.list)]
       ELSE UNCHANGED url

\* (mutant) an empty identityPubkey or alias keeps the previous value
GetInfoContinuationKeep(info) ==
    /\ pubkey' = IF info.identityPubkey = "" THEN pubkey ELSE info.identityPubkey
    /\ alias' = IF info.alias = "" THEN alias ELSE info.alias
    /\ IF info.chainsList.present /\ Len(info.chainsList.list) > 0
       THEN /\ chain' = info.chainsList.list[1].chain
            /\ network' = info.chainsList.list[1].network
       ELSE UNCHANGED <<chain, network>>
    /\ IF info.urisList.present /\ Len(info.urisList.list) > 0
       THEN url' = info.urisList.list[1]
       ELSE UNCHANGED url

\* the runInAction body 'getInfoContinuation' for the response info
GetInfoContinuation(info) ==
    /\ pubkey' = info.identityPubkey
    /\ alias' = info.alias
    /\ IF info.chainsList.present /\ Len(info.chainsList.list) > 0
       THEN /\ chain' = info.chainsList.list[1].chain
            /\ network' = info.chainsList.list[1].network
       ELSE UNCHANGED <<chain, network>>
    /\ IF info.urisList.present /\ Len(info.urisList.list) > 0
       THEN url' = info.urisList.list[1]
       ELSE UNCHANGED url

\* getInfo() resolves for invocation i and fetchInfo runs to its end
FetchInfoResolved(i, info) ==
    /\ i \in 1..Len(calls)
    /\ calls[i].fn = "fetchInfo" /\ calls[i].pc = "getInfo"
    /\ lastResponse' = Response(i, "getInfo", info)
    /\ GetInfoContinuation(info)
    /\ observed' = RunInAction(InfoAssignments(info))
    /\ calls' = [calls EXCEPT ![i] = Finish(@, "committed", InfoWrites(info))]
    /\ UNCHANGED <<wallet, knownTxns, uiErrors, notifications, clipboard,
                   delivered, redelivered, base, sinceCommit,
                   debounceVars, reactVars, auxVars>>

\* getInfo() rejects for invocation i: the catch block
FetchInfoRejected(i) ==
    /\ i \in 1..Len(calls)
    /\ calls[i].fn = "fetchInfo" /\ calls[i].pc = "getInfo"
    /\ lastResponse' = Rejection(i, "getInfo")
    /\ HandleError(i, RpcError, InfoErrorMsg)
    /\ calls' = [calls EXCEPT ![i] = Finish(@, "rejected", {})]
    /\ UNCHANGED <<storeVars, notifications, clipboard, histVars,
                   debounceVars, reactVars, auxVars>>

\* fetchBalances() up to its first await: the channelBalance RPC is issued
StartFetchBalances ==
    calls' = Append(calls, NewCall("fetchBalances", "channelBalance"))

fetchBalances ==
    /\ StartFetchBalances
    /\ UNCHANGED <<storeVars, lastResponse, uiErrors, notifications, clipboard,
                   histVars, debounceVars, reactVars, auxVars>>

\* channelBalance() resolves: offChain is kept, the walletBalance RPC is issued
ChannelBalanceResolved(i, offChain) ==
    /\ i \in 1..Len(calls)
    /\ calls[i].fn = "fetchBalances" /\ calls[i].pc = "channelBalance"
    /\ lastResponse' = Response(i, "channelBalance", offChain)
    /\ calls' = [calls EXCEPT ![i].pc = "walletBalance",
                              ![i].offChain = Resolved(offChain),
                              ![i].issued = Append(@, "walletBalance")]
    /\ UNCHANGED <<storeVars, uiErrors, notifications, clipboard, histVars,
                   debounceVars, reactVars, auxVars>>

\* channelBalance() or walletBalance() rejects: the catch block
FetchBalancesRejected(i) ==
    /\ i \in 1..Len(calls)
    /\ calls[i].fn = "fetchBalances"
    /\ calls[i].pc \in {"channelBalance", "walletBalance"}
    /\ lastResponse' = Rejection(i, calls[i].pc)
    /\ HandleError(i, RpcError, BalancesErrorMsg)
    /\ calls' = [calls EXCEPT ![i] = Finish(@, "rejected", {})]
    /\ UNCHANGED <<storeVars, notifications, clipboard, histVars,
                   debounceVars, reactVars, auxVars>>

\* the assignments the body of 'fetchBalancesContinuation' makes before it
\* ends or throws, in order
BalanceAssignments(offChain, onChain) ==
    LET off == Big(offChain.balance)
        on == Big(onChain.totalBalance)
    IN  IF off.threw THEN <<>>
        ELSE <<Assign("channelBalance", off.val, TRUE)>>
             \o (IF on.threw THEN <<>>
                 ELSE <<Assign("walletBalance", on.val, TRUE)>>)

\* (mutant) the commit adds the amounts applied since the last commit to
\* the response's totalBalance
FetchBalancesContinuationMerge(i, offChain, onChain) ==
    LET off == Big(offChain.balance)
        on == Big(onChain.totalBalance)
    IN  IF off.threw \/ on.threw
        THEN /\ UNCHANGED <<wallet, base, sinceCommit>>
             /\ HandleError(i, BigError, BalancesErrorMsg)
             /\ calls' = [calls EXCEPT ![i] = Finish(@, "threw", {})]
        ELSE /\ wallet' = [channelBalance |-> off.val,
                           walletBalance |-> on.val + sinceCommit]
             /\ base' = on.val
             /\ UNCHANGED <<sinceCommit, uiErrors>>
             /\ calls' = [calls EXCEPT ![i] =
                            Finish(@, "committed", {"channelBalance", "walletBalance"})]

\* the runInAction body 'fetchBalancesContinuation': two assignments in
\* order, each converting its response with Big(); a conversion that throws
\* leaves the assignments before it in place and reaches the catch block
FetchBalancesContinuation(i, offChain, onChain) ==
    LET off == Big(offChain.balance)
        on == Big(onChain.totalBalance)
    IN  IF off.threw
        THEN /\ UNCHANGED <<wallet, base, sinceCommit>>
             /\ HandleError(i, BigError, BalancesErrorMsg)
             /\ calls' = [calls EXCEPT ![i] = Finish(@, "threw", {})]
        ELSE IF on.threw
        THEN /\ wallet' = [wallet EXCEPT !.channelBalance = off.val]
             /\ UNCHANGED <<base, sinceCommit>>
             /\ HandleError(i, BigError, BalancesErrorMsg)
             /\ calls' = [calls EXCEPT ![i] = Finish(@, "threw", {"channelBalance"})]
        ELSE /\ wallet' = [channelBalance |-> off.val, walletBalance |-> on.val]
             /\ base' = on.val
             /\ sinceCommit' = 0
             /\ UNCHANGED uiErrors
             /\ calls' = [calls EXCEPT ![i] =
                            Finish(@, "committed", {"channelBalance", "walletBalance"})]

\* walletBalance() resolves for invocation i and fetchBalances runs to its end
WalletBalanceResolved(i, onChain) ==
    /\ i \in 1..Len(calls)
    /\ calls[i].fn = "fetchBalances" /\ calls[i].pc = "walletBalance"
    /\ lastResponse' = Response(i, "walletBalance", onChain)
    /\ FetchBalancesContinuation(i, calls[i].offChain.val, onChain)
    /\ observed' = RunInAction(BalanceAssignments(calls[i].offChain.val, onChain))
    /\ UNCHANGED <<pubkey, alias, url, chain, network, knownTxns, notifications,
                   clipboard, delivered, redelivered, debounceVars, reactVars, auxVars>>

\* the node answers the walletBalance RPC of invocation i: the response is
\* on its way; known is the number of transactions the store had applied
\* by then
WalletBalanceProduced(i, onChain) ==
    /\ i \in 1..Len(calls)
    /\ calls[i].fn = "fetchBalances" /\ calls[i].pc = "walletBalance"
    /\ \A p \in produced : p.call # i
    /\ produced' = produced \cup
                      {[call |-> i, val |-> onChain, known |-> Len(knownTxns)]}
    /\ UNCHANGED <<reads, orphans, sinceCall, untilDue, storeVars, asyncVars,
                   histVars, debounceVars, reactVars>>

\* (mutant) the hash is pushed before the list is consulted
ApplyTransactionPushFirst(transaction) ==
    /\ knownTxns' = Append(knownTxns, transaction.txHash)
    /\ IF Includes(knownTxns, transaction.txHash)
       THEN UNCHANGED wallet
       ELSE wallet' = [wallet EXCEPT
                         !.walletBalance = Plus(@, transaction.amount)]

\* the effect of onTransaction(transaction) on the store
ApplyTransaction(transaction) ==
    IF Includes(knownTxns, transaction.txHash)
    THEN UNCHANGED <<knownTxns, wallet>>
    ELSE /\ knownTxns' = Append(knownTxns, transaction.txHash)
         /\ wallet' = [wallet EXCEPT
                         !.walletBalance = Plus(@, transaction.amount)]

\* the assignments of onTransaction(transaction) to observable fields
TransactionAssignments(transaction) ==
    IF Includes(knownTxns, transaction.txHash) THEN <<>>
    ELSE <<Assign("walletBalance",
                  Plus(wallet.walletBalance, transaction.amount), TRUE)>>

\* onTransaction(transaction), a push from the transaction subscription
onTransaction(transaction) ==
    /\ ApplyTransaction(transaction)
    /\ observed' = RunInAction(TransactionAssignments(transaction))
    /\ delivered' = delivered \cup {transaction.txHash}
    /\ redelivered' = IF transaction.txHash \in delivered
                      THEN redelivered \cup {transaction.txHash}
                      ELSE redelivered
    /\ sinceCommit' = IF transaction.txHash \in delivered
                      THEN sinceCommit
                      ELSE sinceCommit + transaction.amount
    /\ UNCHANGED <<pubkey, alias, url, chain, network, asyncVars, base,
                   debounceVars, reactVars, auxVars>>


-----------------------------------------------------------------------------
(* fetchBalancesThrottled = debounce(this.fetchBalances, 2000)             *)
(* lodash's debounce with its default options: leading false, trailing    *)
(* true, no maxWait.  Timers expire on time: the clock does not pass a     *)
(* pending timer.                                                          *)

DebounceInit ==
    /\ now = 0
    /\ timerId = FALSE
    /\ timerDue = 0
    /\ lastCallTime = -1
    /\ lastArgs = FALSE
    /\ throttledCalls = <<>>
    /\ fetchStarts = <<>>
    /\ sinceCall = -1
    /\ untilDue = 0

\* shouldInvoke(time) of debounce, without maxWait; lastCallTime -1 is undefined
ShouldInvoke(time) ==
    \/ lastCallTime = -1
    \/ time - lastCallTime >= Wait
    \/ time - lastCallTime < 0

\* remainingWait(time) of debounce, without maxWait
RemainingWait(time) == Wait - (time - lastCallTime)

\* (mutant) debounce with leading true: a call with no timer pending
\* invokes fetchBalances at once
fetchBalancesThrottledLeading ==
    /\ Len(throttledCalls) < MaxThrottledCalls
    /\ throttledCalls' = Append(throttledCalls, now)
    /\ lastCallTime' = now
    /\ IF timerId
       THEN /\ lastArgs' = TRUE
            /\ UNCHANGED <<timerId, timerDue, fetchStarts, calls>>
       ELSE /\ timerId' = TRUE /\ timerDue' = now + Wait
            /\ lastArgs' = FALSE
            /\ fetchStarts' = Append(fetchStarts, now)
            /\ StartFetchBalances
    /\ UNCHANGED <<now, storeVars, lastResponse, uiErrors, notifications,
                   clipboard, histVars, reactVars, auxVars>>

\* fetchBalancesThrottled(): records the call and starts the timer when none
\* is pending; with leading false nothing is invoked here
fetchBalancesThrottled ==
    /\ Len(throttledCalls) < MaxThrottledCalls
    /\ throttledCalls' = Append(throttledCalls, now)
    /\ lastArgs' = TRUE
    /\ lastCallTime' = now
    /\ IF timerId
       THEN UNCHANGED <<timerId, timerDue>>
       ELSE timerId' = TRUE /\ timerDue' = now + Wait
    /\ UNCHANGED <<now, fetchStarts, storeVars, asyncVars, histVars, reactVars, auxVars>>

\* timerExpired() of debounce: the trailing edge invokes fetchBalances when
\* the wait has passed since the last call, else the timer is started again
\* for the remaining wait
TimerExpired ==
    /\ timerId
    /\ now = timerDue
    /\ IF ShouldInvoke(now)
       THEN /\ timerId' = FALSE
            /\ lastArgs' = FALSE
            /\ UNCHANGED timerDue
            /\ IF lastArgs
               THEN /\ fetchStarts' = Append(fetchStarts, now)
                    /\ StartFetchBalances
               ELSE UNCHANGED <<fetchStarts, calls>>
       ELSE /\ timerDue' = now + RemainingWait(now)
            /\ UNCHANGED <<timerId, lastArgs, fetchStarts, calls>>
    /\ UNCHANGED <<now, lastCallTime, throttledCalls, storeVars, lastResponse,
                   uiErrors, notifications, clipboard, histVars, reactVars, auxVars>>

\* the clock advances by one tick, not past a pending timer
Tick ==
    /\ now < MaxTime
    /\ timerId => now < timerDue
    /\ now' = now + 1
    /\ UNCHANGED <<timerId, timerDue, lastCallTime, lastArgs, throttledCalls,
                   fetchStarts, storeVars, asyncVars, histVars, reactVars, auxVars>>

-----------------------------------------------------------------------------
(* fetchBalancesThrottled under calls that never end.  debounce reads the  *)
(* clock only to take differences: the time since the last call, and the  *)
(* time a timer has still to run.  Here the state holds these differences  *)
(* (sinceCall, -1 before the first call and counted up to Wait; untilDue)  *)
(* instead of the clock, so that it can recur, and keeps no history of the *)
(* calls.                                                                  *)

\* fetchBalancesThrottled(): as above, leading false
ThrottledCall ==
    /\ lastArgs' = TRUE
    /\ sinceCall' = 0
    /\ IF timerId
       THEN UNCHANGED <<timerId, untilDue>>
       ELSE timerId' = TRUE /\ untilDue' = Wait
    /\ UNCHANGED <<now, timerDue, lastCallTime, throttledCalls, fetchStarts,
                   reads, orphans, produced, storeVars, asyncVars, histVars,
                   reactVars>>

\* timerExpired() of debounce: the trailing edge when the wait has passed
\* since the last call, else the timer is started for the remaining wait
TimerFires ==
    /\ timerId
    /\ untilDue = 0
    /\ IF sinceCall = -1 \/ sinceCall >= Wait
       THEN /\ timerId' = FALSE
            /\ lastArgs' = FALSE
            /\ UNCHANGED untilDue
            /\ IF lastArgs THEN StartFetchBalances ELSE UNCHANGED calls
       ELSE /\ untilDue' = Wait - sinceCall
            /\ UNCHANGED <<timerId, lastArgs, calls>>
    /\ UNCHANGED <<sinceCall, now, timerDue, lastCallTime, throttledCalls,
                   fetchStarts, reads, orphans, produced, storeVars, lastResponse, uiErrors,
                   notifications, clipboard, histVars, reactVars>>

\* 100 ms pass, not past a pending timer
TimePasses ==
    /\ timerId => untilDue > 0
    /\ untilDue' = IF timerId THEN untilDue - 1 ELSE untilDue
    /\ sinceCall' = IF sinceCall = -1 \/ sinceCall >= Wait
                    THEN sinceCall ELSE sinceCall + 1
    /\ UNCHANGED <<timerId, lastArgs, now, timerDue, lastCallTime, throttledCalls,
                   fetchStarts, reads, orphans, produced, storeVars, asyncVars, histVars,
                   reactVars>>

-----------------------------------------------------------------------------
(* StoreProvider, useStore, useActions *)

Stores == {"s1", "s2"}

\* the actions prop: omitted, or one of two actions objects
NoActions == [kind |-> "omitted"]
GivenActions == { [kind |-> "given", id |-> "a1"], [kind |-> "given", id |-> "a2"] }

\* what useContext(StoreContext) returns below no Provider: the default value
Undefined == [defined |-> FALSE]

\* createActions(store): a new actions object bound to store
createActions(store, n) == [kind |-> "derived", of |-> store, id |-> n]

\* the context value a render of StoreProvider builds: the store is the one
\* useLocalStore memoised at the first render, the actions come from the
\* props of this render
ContextData(memo, store, actions) ==
    [defined |-> TRUE,
     store |-> memo,
     actions |-> IF actions = NoActions
                 THEN createActions(store, created + 1)
                 ELSE actions]

ReactInit ==
    /\ orphans = {}
    /\ providers = <<>>
    /\ pass = [active |-> FALSE, depth |-> 0, results |-> <<>>]
    /\ created = 0

CountCreated(actions) ==
    /\ actions = NoActions => created < MaxCreated
    /\ created' = IF actions = NoActions THEN created + 1 ELSE created

\* the first render of a StoreProvider below the mounted ones
Mount(store, actions) ==
    /\ ~pass.active
    /\ Len(providers) < MaxDepth
    /\ CountCreated(actions)
    /\ LET value == ContextData(store, store, actions)
       IN  providers' = Append(providers,
                               [memo |-> store, value |-> value])
    /\ UNCHANGED <<pass, storeVars, asyncVars, histVars, debounceVars, auxVars>>

\* a later render of the mounted StoreProvider p with new props
Rerender(p, store, actions) ==
    /\ ~pass.active
    /\ p \in 1..Len(providers)
    /\ CountCreated(actions)
    /\ providers' = [providers EXCEPT
                       ![p].value = ContextData(providers[p].memo, store, actions)]
    /\ UNCHANGED <<pass, storeVars, asyncVars, histVars, debounceVars, auxVars>>

\* (mutant) unmounting the last StoreProvider cancels the pending fetches
UnmountCancelling ==
    /\ ~pass.active
    /\ Len(providers) > 0
    /\ providers' = SubSeq(providers, 1, Len(providers) - 1)
    /\ orphans' = IF Len(providers) = 1
                  THEN orphans \cup { i \in 1..Len(calls) : calls[i].pc # "done" }
                  ELSE orphans
    /\ calls' = IF Len(providers) = 1
                THEN [i \in 1..Len(calls) |->
                        IF calls[i].pc # "done"
                        THEN Finish(calls[i], "cancelled", {}) ELSE calls[i]]
                ELSE calls
    /\ UNCHANGED <<pass, created, storeVars, lastResponse, uiErrors, notifications,
                   clipboard, histVars, debounceVars, reads, sinceCall, untilDue, produced>>

\* the innermost StoreProvider is unmounted
Unmount ==
    /\ ~pass.active
    /\ Len(providers) > 0
    /\ providers' = SubSeq(providers, 1, Len(providers) - 1)
    /\ orphans' = IF Len(providers) = 1
                  THEN orphans \cup { i \in 1..Len(calls) : calls[i].pc # "done" }
                  ELSE orphans
    /\ UNCHANGED <<pass, created, storeVars, asyncVars, histVars, debounceVars,
                   reads, sinceCall, untilDue, produced>>

\* useContext(StoreContext) in a component below the first depth Providers
UseContext(depth) ==
    IF depth = 0 THEN Undefined ELSE providers[depth].value

\* (mutant) no check of the context data: undefined is returned
useStoreUnchecked(data) ==
    IF ~data.defined
    THEN [threw |-> FALSE, hook |-> "useStore", value |-> "undefined"]
    ELSE [threw |-> FALSE, hook |-> "useStore", value |-> data.store]

\* useStore() given the context data
useStore(data) ==
    IF ~data.defined
    THEN [threw |-> TRUE, hook |-> "useStore",
          message |-> "useStore must be used within a StoreProvider."]
    ELSE [threw |-> FALSE, hook |-> "useStore", value |-> data.store]

\* useActions() given the context data
useActions(data) ==
    IF ~data.defined
    THEN [threw |-> TRUE, hook |-> "useActions",
          message |-> "useActions must be used within a StoreProvider."]
    ELSE [threw |-> FALSE, hook |-> "useActions", value |-> data.actions]

\* a component below depth Providers starts to render
BeginRender(depth) ==
    /\ ~pass.active
    /\ depth \in 0..Len(providers)
    /\ pass' = [active |-> TRUE, depth |-> depth, results |-> <<>>]
    /\ UNCHANGED <<providers, created, storeVars, asyncVars, histVars, debounceVars, auxVars>>

\* the rendering component calls a hook; a throw ends the render
CallHook(hook) ==
    /\ pass.active
    /\ Len(pass.results) < MaxHookCalls
    /\ LET data == UseContext(pass.depth)
           r == IF hook = "useStore" THEN useStore(data) ELSE useActions(data)
       IN  pass' = [pass EXCEPT !.results = Append(@, r), !.active = ~r.threw]
    /\ UNCHANGED <<providers, created, storeVars, asyncVars, histVars, debounceVars, auxVars>>

\* the render returns
EndRender ==
    /\ pass.active
    /\ pass' = [pass EXCEPT !.active = FALSE]
    /\ UNCHANGED <<providers, created, storeVars, asyncVars, histVars, debounceVars, auxVars>>

-----------------------------------------------------------------------------
(* Specifications *)

Init == StoreInit /\ DebounceInit /\ ReactInit

Keys == {"pubkey", "alias", "url"}

\* the whole NodeStore
Next ==
    \/ \E key \in Keys : copy(key)
    \/ Len(calls) < MaxCalls /\ fetchInfo
    \/ \E i \in 1..Len(calls), info \in InfoResponses : FetchInfoResolved(i, info)
    \/ \E i \in 1..Len(calls) : FetchInfoRejected(i)
    \/ Len(calls) < MaxCalls /\ fetchBalances
    \/ \E i \in 1..Len(calls), r \in BalanceResponses : ChannelBalanceResolved(i, r)
    \/ \E i \in 1..Len(calls), r \in WalletResponses : WalletBalanceResolved(i, r)
    \/ \E i \in 1..Len(calls) : FetchBalancesRejected(i)
    \/ \E t \in Transactions : onTransaction(t)

Spec == Init /\ [][Next]_vars

\* the wallet: overlapping fetchBalances invocations and the transaction feed
NextWallet ==
    \/ Len(calls) < MaxFetches /\ fetchBalances
    \/ \E i \in 1..Len(calls), r \in BalanceResponses : ChannelBalanceResolved(i, r)
    \/ \E i \in 1..Len(calls), r \in WalletResponses : WalletBalanceResolved(i, r)
    \/ \E i \in 1..Len(calls) : FetchBalancesRejected(i)
    \/ \E t \in Transactions : onTransaction(t)

SpecWallet == Init /\ [][NextWallet]_vars

\* the node identity: overlapping fetchInfo invocations and copy
NextInfo ==
    \/ \E key \in Keys : copy(key)
    \/ Len(calls) < MaxInfoCalls /\ fetchInfo
    \/ \E i \in 1..Len(calls), info \in InfoResponses : FetchInfoResolved(i, info)
    \/ \E i \in 1..Len(calls) : FetchInfoRejected(i)

SpecInfo == Init /\ [][NextInfo]_vars

\* a fetchBalances whose walletBalance response is on its way while the
\* transaction feed goes on: the response that arrives is the one produced
NextRace ==
    \/ Len(calls) < MaxRaceFetches /\ fetchBalances
    \/ \E i \in 1..Len(calls), r \in BalanceResponses : ChannelBalanceResolved(i, r)
    \/ \E i \in 1..Len(calls), r \in WalletResponses : WalletBalanceProduced(i, r)
    \/ \E p \in produced : WalletBalanceResolved(p.call, p.val)
    \/ \E i \in 1..Len(calls) :
          (\A p \in produced : p.call # i) /\ FetchBalancesRejected(i)
    \/ \E t \in Transactions : onTransaction(t)

SpecRace == Init /\ [][NextRace]_vars

\* the computed labels: reads before and after fetchInfo commits
NextLabels ==
    \/ Len(calls) < MaxLabelFetches /\ fetchInfo
    \/ \E i \in 1..Len(calls), info \in LabelResponses : FetchInfoResolved(i, info)
    \/ \E getter \in {"pubkeyLabel", "urlLabel"} : ReadLabel(getter)

SpecLabels == Init /\ [][NextLabels]_vars

\* the fetches a component below a StoreProvider starts, and the unmount of
\* the Provider while they are pending
NextTeardown ==
    \/ \E a \in GivenActions : Mount("s1", a)
    \/ Unmount
    \/ Len(providers) > 0 /\ Len(calls) < MaxUiCalls /\ fetchInfo
    \/ Len(providers) > 0 /\ Len(calls) < MaxUiCalls /\ fetchBalances
    \/ \E i \in 1..Len(calls), info \in InfoResponses : FetchInfoResolved(i, info)
    \/ \E i \in 1..Len(calls) : FetchInfoRejected(i)
    \/ \E i \in 1..Len(calls), r \in BalanceResponses : ChannelBalanceResolved(i, r)
    \/ \E i \in 1..Len(calls), r \in WalletResponses : WalletBalanceResolved(i, r)
    \/ \E i \in 1..Len(calls) : FetchBalancesRejected(i)

SpecTeardown == Init /\ [][NextTeardown]_vars

NextDebounce ==
    \/ fetchBalancesThrottled
    \/ TimerExpired
    \/ Tick

SpecDebounce == Init /\ [][NextDebounce]_vars

\* fetchBalancesThrottled called for ever: time passes and a due timer
\* fires (the event loop runs it), calls come as the caller likes
NextStream ==
    \/ ThrottledCall
    \/ Len(calls) < MaxStreamFetches /\ TimerFires
    \/ TimePasses

SpecStream ==
    /\ Init /\ [][NextStream]_vars
    /\ WF_vars(TimePasses)
    /\ WF_vars(Len(calls) < MaxStreamFetches /\ TimerFires)

NextProvider ==
    \/ \E s \in Stores, a \in GivenActions \cup {NoActions} : Mount(s, a)
    \/ \E p \in 1..MaxDepth, s \in Stores, a \in GivenActions \cup {NoActions} :
          Rerender(p, s, a)
    \/ Unmount
    \/ \E d \in 0..MaxDepth : BeginRender(d)
    \/ \E h \in {"useStore", "useActions"} : CallHook(h)
    \/ EndRender

SpecProvider == Init /\ [][NextProvider]_vars

-----------------------------------------------------------------------------
(* Properties *)

AmountOf(h) == (CHOOSE t \in Transactions : t.txHash = h).amount

RECURSIVE SumAmounts(_)
SumAmounts(hs) ==
    IF hs = {} THEN 0
    ELSE LET h == CHOOSE x \in hs : TRUE
         IN  AmountOf(h) + SumAmounts(hs \ {h})

Quiescent == \A i \in 1..Len(calls) : calls[i].pc = "done"

\* C1: a further onTransaction call with a txHash already delivered leaves
\* walletBalance, channelBalance and the known-transaction list as they were;
\* outside the fetches the wallet changes only by the first delivery of a
\* hash, which adds its amount once and records the hash.
C1_AppliedAtMostOnce ==
    [][ calls' = calls =>
          \/ /\ delivered' = delivered
             /\ wallet' = wallet
             /\ knownTxns' = knownTxns
          \/ \E t \in Transactions :
                /\ t.txHash \notin delivered
                /\ delivered' = delivered \cup {t.txHash}
                /\ wallet' = [wallet EXCEPT !.walletBalance = @ + t.amount]
                /\ knownTxns' = Append(knownTxns, t.txHash) ]_vars

\* both hashes were delivered more than once and are recorded
C1_Witness ==
    /\ redelivered = TxHashes
    /\ Range(knownTxns) = TxHashes

\* C2 as stated: once no fetch is pending, walletBalance is the initial
\* balance plus the sum of the amounts of all delivered hashes, whatever
\* fetchBalances invocations ran in between.
C2_Original ==
    Quiescent => wallet.walletBalance = InitialBalance + SumAmounts(delivered)

\* C2 amended: walletBalance is the value written by the latest fetchBalances
\* commit (the initial balance when there is none) plus the sum of the
\* amounts of the hashes first delivered since that commit.
C2_SumSinceLastCommit ==
    wallet.walletBalance = base + sinceCommit

\* a fetch committed, and both transactions were applied after it
C2_Witness ==
    /\ \E i \in 1..Len(calls) : calls[i].result = "committed"
    /\ delivered = TxHashes
    /\ sinceCommit = SumAmounts(TxHashes)
    /\ wallet.walletBalance # InitialBalance + SumAmounts(delivered)

\* C3 as stated: a completed fetchBalances invocation has overwritten both
\* balances or neither, whatever the RPCs and the conversions did.
C3_AllOrNothing ==
    \A i \in 1..Len(calls) :
        (calls[i].fn = "fetchBalances" /\ calls[i].pc = "done")
        => calls[i].wrote \in { {}, {"channelBalance", "walletBalance"} }

ErrorMsg(fn) == IF fn = "fetchInfo" THEN InfoErrorMsg ELSE BalancesErrorMsg

C4_Handled ==
    \A i \in 1..Len(calls) :
        calls[i].result = "rejected"
        => /\ calls[i].pc = "done"
           /\ Cardinality({ k \in 1..Len(uiErrors) : uiErrors[k].call = i }) = 1
           /\ calls[i].issued \in { <<"getInfo">>, <<"channelBalance">>,
                                    <<"channelBalance", "walletBalance">> }
           /\ calls[i].wrote = {}

\* the step in which an RPC of invocation i rejects changes no store field,
\* reports the error once, issues no RPC and starts no invocation; the
\* earlier steps of an invocation (its start, a first RPC resolving) change
\* no store field either
C4_Step ==
    /\ \A i \in 1..Len(calls) :
          (calls[i].pc # "done" /\ Len(calls') >= i /\ calls'[i].result = "rejected")
          => /\ storeVars' = storeVars
             /\ uiErrors' = Append(uiErrors, [call |-> i, error |-> RpcError,
                                              message |-> ErrorMsg(calls[i].fn)])
             /\ calls'[i].issued = calls[i].issued
             /\ Len(calls') = Len(calls)
    /\ \A i \in 1..Len(calls') :
          ((i > Len(calls) \/ calls'[i] # calls[i])
           /\ calls'[i].result \in {"pending", "rejected"})
          => storeVars' = storeVars

\* C4: when an RPC of fetchInfo or fetchBalances rejects, the invocation
\* completes, handleError is called exactly once with the error and the
\* method's context message, no RPC is issued again and no invocation is
\* started, and no store field changes.
C4_FailureHandledOnce == []C4_Handled /\ [][C4_Step]_vars

\* the walletBalance RPC of a fetchBalances rejected after a transaction had
\* changed the wallet
C4_Witness ==
    \E i \in 1..Len(calls) :
        /\ calls[i].fn = "fetchBalances"
        /\ calls[i].result = "rejected"
        /\ Len(calls[i].issued) = 2
        /\ wallet.walletBalance # InitialBalance
        /\ Len(uiErrors) = 1

CallTimes == Range(throttledCalls)

\* C5: every fetch started by fetchBalancesThrottled starts exactly 2000 ms
\* after a call with no call in between (none at the time of a call, none
\* earlier than 2000 ms after the most recent call); a call followed by no
\* other call within 2000 ms is followed by exactly one fetch, 2000 ms after
\* it; calls at 0, 100 and 1900 ms give one fetch, at 3900 ms.
C5_TrailingDebounce ==
    /\ \A k \in 1..Len(fetchStarts) :
          /\ fetchStarts[k] - Wait \in CallTimes
          /\ ~ \E c \in CallTimes : fetchStarts[k] - Wait < c /\ c < fetchStarts[k]
    /\ \A c \in CallTimes :
          (now > c + Wait /\ ~ \E d \in CallTimes : c < d /\ d <= c + Wait)
          => Cardinality({ k \in 1..Len(fetchStarts) : fetchStarts[k] = c + Wait }) = 1
    /\ [k \in 1..Len(throttledCalls) |-> Ms(throttledCalls[k])] = <<0, 100, 1900>>
          => /\ Ms(now) < 3900 => fetchStarts = <<>>
             /\ Ms(now) > 3900
                  => [k \in 1..Len(fetchStarts) |-> Ms(fetchStarts[k])] = <<3900>>

\* the calls at 0, 100 and 1900 ms and their one fetch at 3900 ms
C5_Witness ==
    /\ throttledCalls = <<0, 1, 19>>
    /\ fetchStarts = <<39>>
    /\ now = 40

\* the step in which getInfo() resolves for invocation i
InfoCommit(i) ==
    /\ calls[i].pc = "getInfo"
    /\ Len(calls') >= i
    /\ calls'[i].result = "committed"

NonEmpty(field) == field.present /\ field.list # <<>>

\* C6: when getInfo() resolves, chain and network become those of the first
\* element of chainsList and url the first element of urisList; an absent or
\* empty chainsList leaves chain and network as they were, an absent or empty
\* urisList leaves url as it was, each independently of the other.
C6_FirstElementWins ==
    [][ \A i \in 1..Len(calls) :
          InfoCommit(i) =>
            LET info == lastResponse'.val
            IN  /\ IF NonEmpty(info.chainsList)
                   THEN /\ chain' = Head(info.chainsList.list).chain
                        /\ network' = Head(info.chainsList.list).network
                   ELSE chain' = chain /\ network' = network
                /\ IF NonEmpty(info.urisList)
                   THEN url' = Head(info.urisList.list)
                   ELSE url' = url ]_vars

\* the latest response carried two chains and no uris: the first chain was
\* taken and the url of an earlier response was kept
C6_Witness ==
    /\ lastResponse.st = "resolved"
    /\ lastResponse.rpc = "getInfo"
    /\ lastResponse.val.chainsList.list = <<BR, LT>>
    /\ ~lastResponse.val.urisList.present
    /\ calls[lastResponse.call].result = "committed"
    /\ chain = "bitcoin" /\ network = "regtest"
    /\ url = "abc@host:1"

\* C7 as stated: a response without identityPubkey or alias leaves the
\* store's pubkey or alias as it was, while chain, network and url are
\* updated from the lists of the response.
C7_Original ==
    [][ \A i \in 1..Len(calls) :
          InfoCommit(i) =>
            LET info == lastResponse'.val
            IN  /\ info.identityPubkey = "" => pubkey' = pubkey
                /\ info.alias = "" => alias' = alias
                /\ NonEmpty(info.chainsList)
                     => /\ chain' = Head(info.chainsList.list).chain
                        /\ network' = Head(info.chainsList.list).network
                /\ NonEmpty(info.urisList) => url' = Head(info.urisList.list) ]_vars

\* C7 amended: a response without identityPubkey or alias overwrites the
\* store's pubkey and alias with the response's (empty) values, while chain,
\* network and url are updated from the lists of the response.
C7_AbsentOverwrites ==
    [][ \A i \in 1..Len(calls) :
          InfoCommit(i) =>
            LET info == lastResponse'.val
            IN  (info.identityPubkey = "" \/ info.alias = "")
                => /\ pubkey' = info.identityPubkey
                   /\ alias' = info.alias
                   /\ NonEmpty(info.chainsList)
                        => /\ chain' = Head(info.chainsList.list).chain
                           /\ network' = Head(info.chainsList.list).network
                   /\ NonEmpty(info.urisList)
                        => url' = Head(info.urisList.list) ]_vars

\* the pubkey was "02abc" (it was copied) and the latest response, without
\* identityPubkey, emptied it and set the chain
C7_Witness ==
    /\ clipboard = "02abc"
    /\ lastResponse.st = "resolved"
    /\ lastResponse.rpc = "getInfo"
    /\ lastResponse.val.identityPubkey = ""
    /\ lastResponse.val.chainsList.list = <<LT>>
    /\ calls[lastResponse.call].result = "committed"
    /\ pubkey = ""
    /\ chain = "litecoin" /\ network = "testnet"

\* C8 as stated: both balances are non-negative in every reachable state.
C8_NonNegative ==
    /\ wallet.channelBalance >= 0
    /\ wallet.walletBalance >= 0

\* what the hook must give in a component below depth Providers
ExpectedHook(hook, depth) ==
    IF depth = 0
    THEN [threw |-> TRUE, hook |-> hook,
          message |-> IF hook = "useStore"
                      THEN "useStore must be used within a StoreProvider."
                      ELSE "useActions must be used within a StoreProvider."]
    ELSE [threw |-> FALSE, hook |-> hook,
          value |-> IF hook = "useStore"
                    THEN providers[depth].memo
                    ELSE providers[depth].value.actions]

\* C9: below no StoreProvider useStore and useActions throw with their exact
\* message and return nothing; below a StoreProvider every call of one render
\* returns the store the Provider holds, or the actions of its context value.
C9_HooksFailFast ==
    \A k \in 1..Len(pass.results) :
        /\ pass.depth = 0 => pass.results[k].threw
        /\ (pass.active \/ pass.depth = 0)
             => pass.results[k] = ExpectedHook(pass.results[k].hook, pass.depth)
        /\ \A j \in 1..Len(pass.results) :
             (pass.results[j].hook = pass.results[k].hook)
             => pass.results[j] = pass.results[k]

\* one render below a Provider called useStore twice
C9_Witness ==
    /\ pass.active
    /\ pass.depth = 1
    /\ Len(pass.results) = 2
    /\ \A k \in 1..2 : pass.results[k].hook = "useStore" /\ ~pass.results[k].threw

\* C10 as stated: across the renders of a mounted StoreProvider its consumers
\* see the same store and the same actions as after the first render, and
\* actions made because the prop was omitted are those of the exposed store.
C10_Immutable ==
    /\ [][ \A p \in 1..Len(providers) :
             Len(providers') >= p
             => /\ providers'[p].value.store = providers[p].value.store
                /\ providers'[p].value.actions = providers[p].value.actions ]_vars
    /\ [](\A p \in 1..Len(providers) :
             providers[p].value.actions.kind = "derived"
             => providers[p].value.actions.of = providers[p].value.store)

\* the RPCs of invocation c that were issued and have not settled
InFlight(c) ==
    { r \in Range(c.issued) :
        /\ c.pc # "done"
        /\ r = "channelBalance" => c.offChain = NoResp }

C11_Sequential ==
    \A i \in 1..Len(calls) :
        calls[i].fn = "fetchBalances"
        => /\ calls[i].issued \in { <<"channelBalance">>,
                                    <<"channelBalance", "walletBalance">> }
           /\ Cardinality(InFlight(calls[i])) <= 1
           /\ calls[i].pc = "channelBalance" => calls[i].issued = <<"channelBalance">>
           /\ calls[i].pc = "walletBalance" => calls[i].offChain.st = "resolved"

\* walletBalance is issued in the step in which channelBalance resolves for
\* the same invocation; a rejection issues nothing, and a completed
\* invocation issues nothing any more
C11_Step ==
    \A i \in 1..Len(calls) :
        /\ Len(calls') >= i
        /\ calls'[i].issued # calls[i].issued
             => /\ calls[i].pc = "channelBalance"
                /\ lastResponse' = Response(i, "channelBalance", calls'[i].offChain.val)
                /\ calls'[i].issued = Append(calls[i].issued, "walletBalance")
        /\ (calls[i].pc = "channelBalance" /\ calls'[i].result = "rejected")
             => calls'[i].issued = <<"channelBalance">>
        /\ calls[i].pc = "done" => calls'[i] = calls[i]

\* C11: within one fetchBalances invocation the walletBalance RPC is issued
\* only after the channelBalance RPC was issued and has resolved; the two
\* RPCs are never in flight at the same time; when channelBalance rejects,
\* walletBalance is never issued.
C11_WalletAfterChannel == []C11_Sequential /\ [][C11_Step]_vars

\* one invocation was rejected at channelBalance, an overlapping one waits
\* for walletBalance
C11_Witness ==
    /\ Len(calls) = 2
    /\ calls[1].result = "rejected" /\ calls[1].issued = <<"channelBalance">>
    /\ calls[2].pc = "walletBalance"
    /\ InFlight(calls[2]) = {"walletBalance"}

\* invocation i commits in this step
Commits(i) ==
    /\ calls[i].pc # "done"
    /\ Len(calls') >= i
    /\ calls'[i].result = "committed"

\* no state shows part of a successful operation: a pending invocation has
\* written nothing, a committed one all its fields; the state observers
\* were shown last differs from the store in no field since the batch
C12_NoIntermediate ==
    /\ \A i \in 1..Len(calls) :
          /\ calls[i].result = "pending" => calls[i].wrote = {}
          /\ (calls[i].result = "committed" /\ calls[i].fn = "fetchBalances")
               => calls[i].wrote = {"channelBalance", "walletBalance"}
          /\ (calls[i].result = "committed" /\ calls[i].fn = "fetchInfo")
               => {"pubkey", "alias"} \subseteq calls[i].wrote
    /\ Len(observed) <= 1

\* the steps that change an observable field are the commits and the
\* applying onTransaction calls (and a fetchBalances body that throws), and
\* each shows observers exactly one state, the one it leaves
C12_Step ==
    /\ \A i \in 1..Len(calls) :
          Commits(i) =>
             observed' = IF calls[i].fn = "fetchInfo" /\ Observable' = Observable
                         THEN <<>> ELSE <<Observable'>>
    /\ knownTxns' # knownTxns => observed' = <<Observable'>>
    /\ Observable' # Observable => observed' = <<Observable'>>

C13_FullOverwrite ==
    [][ \A i \in 1..Len(calls) :
          (Commits(i) /\ calls[i].fn = "fetchBalances")
          => /\ lastResponse'.call = i
             /\ lastResponse'.rpc = "walletBalance"
             /\ calls[i].offChain.val.balance.num
             /\ lastResponse'.val.totalBalance.num
             /\ wallet' = [channelBalance |-> calls[i].offChain.val.balance.v,
                           walletBalance |-> lastResponse'.val.totalBalance.v] ]_vars

\* a fetch committed 4 and 1 over balances both transactions had changed,
\* and nothing was applied since
C13_Witness ==
    /\ lastResponse.st = "resolved"
    /\ lastResponse.rpc = "walletBalance"
    /\ calls[lastResponse.call].result = "committed"
    /\ delivered = TxHashes
    /\ sinceCommit = 0
    /\ wallet = [channelBalance |-> 4, walletBalance |-> 1]

\* the positions of '@' in u
Ats(u) == { k \in 1..Len(u) : SubSeq(u, k, k) = "@" }

FirstAt(u) == CHOOSE k \in Ats(u) : \A j \in Ats(u) : k <= j

\* the part of u before its first '@'
BeforeAt(u) == SubSeq(u, 1, FirstAt(u) - 1)

\* the host part of u: what follows its first '@', up to the next '@'
HostPart(u) ==
    LET later == { k \in Ats(u) : k > FirstAt(u) }
        end == IF later = {} THEN Len(u) + 1
               ELSE CHOOSE k \in later : \A j \in later : k <= j
    IN  SubSeq(u, FirstAt(u) + 1, end - 1)

\* reading a label changes no store field
C14_ReadOnly == reads' # reads => storeVars' = storeVars

\* two reads of one label between which pubkey and url are the same return
\* the same value, and pubkeyLabel is the shortened pubkey
C14_Repeatable ==
    \A j, k \in 1..Len(reads) :
        /\ (reads[j].getter = reads[k].getter /\ reads[j].pubkey = reads[k].pubkey
               /\ reads[j].url = reads[k].url)
           => reads[j].value = reads[k].value
        /\ reads[k].getter = "pubkeyLabel"
           => reads[k].value = ellipseInside(reads[k].pubkey)

\* every read of urlLabel returned what the statement says
C14_AsStated ==
    \A k \in 1..Len(reads) :
        reads[k].getter = "urlLabel"
        => reads[k].value =
             IF reads[k].url = "" \/ Ats(reads[k].url) = {} THEN ""
             ELSE ellipseInside(BeforeAt(reads[k].url)) \o "@"
                  \o HostPart(reads[k].url)

\* C14 as stated: the labels are pure functions of pubkey and url, and
\* urlLabel is empty whenever url is empty or has no '@', and otherwise the
\* shortened part before the first '@', then '@', then the host part.
C14_Original ==
    [][C14_ReadOnly]_vars /\ []C14_Repeatable /\ []C14_AsStated

\* every read of urlLabel returned the empty string for a url that is
\* empty, has no '@' or has an empty host part, and else the two parts
C14_Amended ==
    \A k \in 1..Len(reads) :
        reads[k].getter = "urlLabel"
        => reads[k].value =
             IF reads[k].url = "" \/ Ats(reads[k].url) = {}
                \/ HostPart(reads[k].url) = "" THEN ""
             ELSE ellipseInside(BeforeAt(reads[k].url)) \o "@"
                  \o HostPart(reads[k].url)

\* C14 amended: the labels are pure functions of pubkey and url, and
\* urlLabel is empty whenever url is empty, has no '@' or has an empty host
\* part (nothing between its first '@' and the next '@' or the end), and
\* otherwise the shortened part before the first '@', then '@', then the
\* host part.
C14_EmptyHostIsEmpty ==
    [][C14_ReadOnly]_vars /\ []C14_Repeatable /\ []C14_Amended

\* the pubkey was read shortened, and urlLabel was read twice as the empty
\* string for the url "abc@"
C14_Witness ==
    /\ Len(reads) = 3
    /\ reads[1].getter = "pubkeyLabel" /\ reads[1].value = "012345...abcdef"
    /\ \A k \in 2..3 :
          /\ reads[k].getter = "urlLabel"
          /\ reads[k].url = "abc@"
          /\ reads[k].value = ""

\* every invocation that was pending at the teardown is pending or has run
\* to one of its three ends
C15_NotCancelled ==
    \A i \in orphans :
        calls[i].result \in {"pending", "committed", "rejected", "threw"}

\* the teardown leaves the invocations and the store as they are, and the
\* response of an invocation that was pending at the teardown is handled as
\* that of any other: getInfo resolving commits, channelBalance resolving
\* issues walletBalance, walletBalance resolving with two numbers commits
C15_Step ==
    /\ Len(providers') < Len(providers)
         => calls' = calls /\ storeVars' = storeVars
    /\ \A i \in orphans :
          (calls[i].pc # "done" /\ calls'[i] # calls[i]
             /\ lastResponse'.st = "resolved")
          => /\ lastResponse'.call = i
             /\ calls[i].pc = "getInfo"
                  => /\ calls'[i].result = "committed"
                     /\ pubkey' = lastResponse'.val.identityPubkey
                     /\ alias' = lastResponse'.val.alias
             /\ calls[i].pc = "channelBalance" => calls'[i].pc = "walletBalance"
             /\ (calls[i].pc = "walletBalance"
                   /\ calls[i].offChain.val.balance.num
                   /\ lastResponse'.val.totalBalance.num)
                  => /\ calls'[i].result = "committed"
                     /\ wallet'.channelBalance = calls[i].offChain.val.balance.v
                     /\ wallet'.walletBalance = lastResponse'.val.totalBalance.v

\* C15: a fetchInfo or fetchBalances whose RPC is pending when the
\* StoreProvider that started it is unmounted is not cancelled: the unmount
\* leaves it pending, and its response is committed to the store when it
\* arrives.
C15_NoCancellation == []C15_NotCancelled /\ [][C15_Step]_vars

\* the Provider is gone, and the fetchBalances that was pending when it was
\* unmounted has committed 4 and 1 since
C15_Witness ==
    /\ providers = <<>>
    /\ orphans = {1}
    /\ calls[1].fn = "fetchBalances"
    /\ calls[1].result = "committed"
    /\ wallet = [channelBalance |-> 4, walletBalance |-> 1]

\* C16: any two fetchBalances invocations started through
\* fetchBalancesThrottled start at least 2000 ms apart, whatever the
\* pattern of calls.
C16_AtLeastWaitApart ==
    \A j, k \in 1..Len(fetchStarts) :
        j < k => Ms(fetchStarts[k]) - Ms(fetchStarts[j]) >= WaitMs

\* two fetches exactly 2000 ms apart: the second call came as the first
\* fetch started
C16_Witness ==
    /\ Len(fetchStarts) = 2
    /\ Ms(fetchStarts[2]) - Ms(fetchStarts[1]) = WaitMs
    /\ fetchStarts[1] \in CallTimes

\* C17 as stated: every call of fetchBalancesThrottled is eventually followed
\* by a fetchBalances invocation that starts after it, for every schedule
\* of calls, also one in which the calls never end and are less than
\* 2000 ms apart.
C17_EveryCallFetched ==
    \A n \in 0..(MaxStreamFetches - 1) :
        (lastArgs /\ Len(calls) = n) ~> (Len(calls) > n)

\* the hashes the store applied after the response of invocation i was
\* produced
AppliedSince(i) ==
    LET p == CHOOSE q \in produced : q.call = i
    IN  { knownTxns[k] : k \in (p.known + 1)..Len(knownTxns) }

\* C18 as stated: a transaction applied after the walletBalance response of
\* a fetchBalances invocation was produced and before the invocation
\* commits is not lost: after the commit walletBalance is the response's
\* totalBalance plus the amount of every such transaction.
C18_NotLost ==
    [][ \A i \in 1..Len(calls) :
          (Commits(i) /\ calls[i].fn = "fetchBalances"
             /\ \E q \in produced : q.call = i)
          => wallet'.walletBalance =
               lastResponse'.val.totalBalance.v + SumAmounts(AppliedSince(i)) ]_vars

\* C19 as stated: with overlapping fetchBalances invocations every commit
\* writes the two balances of the responses of one and the same invocation,
\* and the balances of an invocation that was started later are not
\* replaced by those of one that was started earlier and answered later.
C19_LatestStartedWins ==
    [][ \A i \in 1..Len(calls) :
          (Commits(i) /\ calls[i].fn = "fetchBalances")
          => /\ lastResponse'.call = i
             /\ wallet'.channelBalance = calls[i].offChain.val.balance.v
             /\ wallet'.walletBalance = lastResponse'.val.totalBalance.v
             /\ (\E j \in (i + 1)..Len(calls) : calls[j].result = "committed")
                  => wallet' = wallet ]_vars

\* the list holds every delivered hash once
C20_ExactlyTheApplied ==
    /\ Cardinality(Range(knownTxns)) = Len(knownTxns)
    /\ Range(knownTxns) = delivered

\* the list changes only by a new hash at its end, in the step that adds
\* the amount of that transaction to walletBalance and changes no other
\* field; a step of fetchInfo, fetchBalances or copy leaves the list alone
C20_Step ==
    /\ \/ knownTxns' = knownTxns
       \/ \E t \in Transactions :
             /\ t.txHash \notin Range(knownTxns)
             /\ knownTxns' = Append(knownTxns, t.txHash)
             /\ wallet'.walletBalance = wallet.walletBalance + t.amount
    /\ (delivered' # delivered \/ redelivered' # redelivered)
         => /\ <<pubkey, alias, url, chain, network>>' =
                 <<pubkey, alias, url, chain, network>>
            /\ wallet'.channelBalance = wallet.channelBalance
            /\ knownTxns' = knownTxns => wallet' = wallet
    /\ (calls' # calls \/ clipboard' # clipboard \/ notifications' # notifications)
         => knownTxns' = knownTxns

\* C20: the known-transaction list has no duplicate, holds exactly the
\* hashes of the transactions whose amount was added to walletBalance and
\* never shrinks; onTransaction changes nothing but the list and
\* walletBalance; fetchInfo, fetchBalances and copy never change the list.
C20_KnownTxns == []C20_ExactlyTheApplied /\ [][C20_Step]_vars

\* both transactions were applied and delivered again, around a fetchInfo
\* that committed and a copy
C20_Witness ==
    /\ knownTxns = <<"h2", "h1">>
    /\ redelivered = TxHashes
    /\ Len(calls) = 1 /\ calls[1].fn = "fetchInfo" /\ calls[1].result = "committed"
    /\ clipboard = "02abc"
    /\ wallet.walletBalance = SumAmounts(TxHashes)

=============================================================================
